---- MODULE Spec2Model ----
(***************************************************************************)
(* Deferred payment capture in shopify-payment-app.                        *)
(*                                                                         *)
(* The repository carries two deployments of the deferred-capture          *)
(* scheduler, and a run of the program is one of them:                     *)
(*                                                                         *)
(*   "service"   ShopifyService with its built-in scheduler                *)
(*               (src/unnamed/part_004, started by the server embedded in  *)
(*               src/deploy.sh): an array of jobs, one setTimeout per job, *)
(*               and a setInterval sweep every minute.                     *)
(*   "scheduler" PaymentScheduler (src/unnamed/part_003, used by           *)
(*               src/controllers/webhooks.js and src/unnamed/part_001):    *)
(*               a Map of node-schedule jobs keyed payment_capture_<id>    *)
(*               and a Set of pending order ids.                           *)
(*                                                                         *)
(* JavaScript runs every callback to its next await without interleaving,  *)
(* so each action below is one such run-to-completion step.  The capture   *)
(* call is a network request: it is started in one step and settles, with  *)
(* success or with an error, in a later one.                               *)
(*                                                                         *)
(* Time is in milliseconds, as in the source.                              *)
(*                                                                         *)
(* Several specifications share the variables:                             *)
(*   Spec          the scheduler driven through its own operations         *)
(*                 (schedule, cancel, the timers and the sweep);           *)
(*   HookSpec      the scheduler behind the order handlers that call it    *)
(*                 (processOrder, handleOrderCreate, handleOrderUpdate);   *)
(*   TimerSpec     ShopifyService with delays beyond the range of          *)
(*                 setTimeout;                                             *)
(*   RegistrySpec  PaymentScheduler with the ids of one order as JSON      *)
(*                 delivers them, a number or a string;                    *)
(*   FlagSpec      the order handlers fed with orders that carry both      *)
(*                 flags;                                                  *)
(*   TokenSpec     the access token as capturePayment refreshes and uses   *)
(*                 it;                                                     *)
(*   StartupSpec   the token loop of the app.listen callback.              *)
(***************************************************************************)
EXTENDS Integers, Sequences, FiniteSets, Bags, TLC

\* ---------------------------------------------------------------- bounds
MaxJobs == 2          \* schedule calls per run
MaxSweeps == 2        \* sweep passes per run
MaxStartCalls == 2    \* startScheduler calls per run
MaxCalls == 2         \* capturePayment calls per job
MaxHandlers == 1      \* request handlers waiting for a network call at once
MaxRequests == 2      \* capture requests sent per run of the credential model
MaxMinutes == 30      \* length of a run of the credential model, in minutes

\* ------------------------------------------------------- program constants
SweepInterval == 60000
PayLaterDelay == 30 * 60 * 1000
SevenDays == 7 * 24 * 60 * 60 * 1000
RefreshMargin == 300000
TimeoutMax == 2147483647
\* let retries = 3
Retries == 3
\* setTimeout(resolve, 5000) between two attempts
RetryDelay == 5000

\* ------------------------------------------------------------ input sets
Orders == {"1001", "1002"}
\* the authorization transaction the transactions lookup finds for an order
AuthTxn == [o \in Orders |-> IF o = "1001" THEN "tx-A" ELSE "tx-B"]
Txns == {AuthTxn[o] : o \in Orders}
\* delays the handlers pass to schedulePaymentCapture: payLaterDelay from
\* processOrder, and the delay query parameter of POST /test-schedule
\* (a negative one gives a job that is already overdue)
Delays == {PayLaterDelay, 0 - 10000}

NoTxn == "none"

\* the credential before the first refresh: accessToken and tokenExpiry
\* are null
NoToken == "null"
NullDate == 0 - 1
\* expires_in of the token response, in seconds
ExpiresIn == {600, 3600}
\* the times between two calls of the credential model
Waits == {4 * 60 * 1000, 10 * 60 * 1000}

\* order.id of a webhook body that carries no id
NoOrderId == "undefined"
OrderIds == Orders \cup {NoOrderId}

\* the payment flags, and where an order carries them: in a note attribute
\* (or a line-item property) named payment_flag, and in its tags
Flags == {"buy_now", "pay_later"}
NoFlag == "no flag"
Payloads == [note : Flags \cup {NoFlag}, tags : SUBSET Flags]

VARIABLES
    variant,            \* which deployment runs
    now,                \* Date.now()
    \* --- ShopifyService (part_004)
    scheduledJobs,      \* this.scheduledJobs: array of job objects
    isSchedulerRunning, \* this.isSchedulerRunning
    intervals,          \* number of setInterval sweep loops installed
    startCalls,         \* calls of startScheduler so far
    nextSweep,          \* earliest time of the next sweep tick
    \* --- PaymentScheduler (part_003)
    schedulerJobs,      \* this.scheduledJobs: Map jobId -> node-schedule job
    pendingOrders,      \* this.pendingOrders: Set of order ids
    \* --- the runtime
    timers,             \* armed one-shot timers: [id, fireAt]
    inflight,           \* bag of dispatches whose callback has not finished
    \* --- history, for stating the properties
    jobs,               \* every job ever scheduled, by id
    invoked,            \* id -> number of capturePayment calls made for it
    captureArgs,        \* the (job, orderId, transactionId) of those calls
    claimed,            \* ids whose dispatch has started
    succeeded,          \* ids with a capture attempt that returned
    failed,             \* ids with a capture attempt that threw
    sweptPast,          \* ids scheduled overdue that a sweep pass has since passed
    cancelReq,          \* ids that were unclaimed when cancel was called
    replaced,           \* ids that were unclaimed when their order was rescheduled
    sweeps,             \* sweep passes run so far
    \* --- the request handlers
    handlers,           \* bag of handlers waiting for a network call
    updated,            \* order id -> what its last update webhook asked for
    boughtNow,          \* ids that were unclaimed when an update webhook
                        \* started a buy_now capture for their order
    \* --- the credential
    accessToken,        \* this.accessToken
    tokenExpiry,        \* this.tokenExpiry, in milliseconds
    sent,               \* history: the capture requests sent, with the expiry
                        \* of the token each one carried
    \* --- the app.listen callback (part_001)
    startup,            \* where the callback stands
    retries,            \* its local variable retries
    attempts            \* history: calls of refreshAccessToken it has made

vars == <<variant, now, scheduledJobs, isSchedulerRunning, intervals,
          startCalls, nextSweep, schedulerJobs, pendingOrders, timers,
          inflight, jobs, invoked, captureArgs, claimed, succeeded, failed, sweptPast,
          cancelReq, replaced, sweeps, handlers, updated, boughtNow, accessToken,
          tokenExpiry, sent, startup, retries, attempts>>

serviceVars == <<scheduledJobs, isSchedulerRunning, intervals, startCalls,
                 nextSweep, sweeps>>
schedulerVars == <<schedulerJobs, pendingOrders>>
hookVars == <<handlers, updated, boughtNow>>
startupVars == <<startup, retries, attempts>>
tokenVars == <<accessToken, tokenExpiry, sent, startupVars>>
\* everything but the request handlers' own state
coreVars == <<variant, tokenVars, now, serviceVars, schedulerVars, timers,
              inflight, jobs, invoked, captureArgs, claimed, succeeded,
              failed, sweptPast, cancelReq, replaced>>

\* ---------------------------------------------------------------- helpers
JobIds == 1..Len(jobs)

RemoveAt(s, i) == SubSeq(s, 1, i - 1) \o SubSeq(s, i + 1, Len(s))

Min(S) == CHOOSE x \in S : \A y \in S : x <= y

\* an order id that arrives as a JSON number: Shopify's webhook bodies carry
\* order.id as a number, while the body of /simulate/order-webhook carries
\* whatever the caller wrote, a number or a string
Number1001 == "1001 (number)"

\* the ids of one order as JSON delivers them
JsonIds == {"1001", Number1001}

\* what a template literal makes of an id: the number 1001 and the string
\* "1001" both read 1001
TemplateString(orderId) == IF orderId = Number1001 THEN "1001" ELSE orderId

\* jobId = `payment_capture_${orderId}`
JobKey(orderId) == <<"payment_capture_", TemplateString(orderId)>>

\* setTimeout(cb, delay): a delay below 1 (or above the 32-bit maximum) is
\* replaced by 1
TimerDelay(delay) == IF delay < 1 \/ delay > TimeoutMax THEN 1 ELSE delay

\* a findIndex that ignores the order id and answers with the first element
FindFirstIndex(arr, orderId) == IF Len(arr) > 0 THEN 1 ELSE 0

\* Array.prototype.findIndex(j => j.orderId === orderId); 0 stands for -1
FindIndex(arr, orderId) ==
    IF \E i \in DOMAIN arr : arr[i].orderId = orderId
    THEN Min({i \in DOMAIN arr : arr[i].orderId = orderId})
    ELSE 0

\* the part of removeScheduledJob that acts on the array
RemoveScheduledJobArr(arr, orderId) ==
    IF FindIndex(arr, orderId) > 0 THEN RemoveAt(arr, FindIndex(arr, orderId))
    ELSE arr

\* the part of removeScheduledJob that acts on the timers (clearTimeout)
RemoveScheduledJobTimers(arr, tms, orderId) ==
    IF FindIndex(arr, orderId) > 0
    THEN {t \in tms : t.id # arr[FindIndex(arr, orderId)].jobId}
    ELSE tms

\* JavaScript %: the remainder takes the sign of the dividend
JsRem(a, b) == IF a >= 0 THEN a % b ELSE 0 - ((0 - a) % b)

\* getScheduledJobs(): one summary per array element, in array order
getScheduledJobs ==
    [i \in DOMAIN scheduledJobs |->
        LET timeLeft == scheduledJobs[i].scheduledTime - now IN
        [orderId |-> scheduledJobs[i].orderId,
         scheduledTime |-> scheduledJobs[i].scheduledTime,
         minutes |-> timeLeft \div (1000 * 60),
         seconds |-> JsRem(timeLeft, 1000 * 60) \div 1000,
         timeLeftMs |-> timeLeft]]

\* ------------------------------------------------------------------- Init
Init ==
    /\ variant \in {"service", "scheduler"}
    /\ now = 0
    /\ scheduledJobs = <<>>
    /\ isSchedulerRunning = FALSE
    /\ intervals = 0
    /\ startCalls = 0
    /\ nextSweep = 0
    /\ schedulerJobs = [k \in {} |-> 0]
    /\ pendingOrders = {}
    /\ timers = {}
    /\ inflight = EmptyBag
    /\ jobs = <<>>
    /\ invoked = [j \in 1..MaxJobs |-> 0]
    /\ captureArgs = {}
    /\ claimed = {}
    /\ succeeded = {}
    /\ failed = {}
    /\ sweptPast = {}
    /\ cancelReq = {}
    /\ replaced = {}
    /\ sweeps = 0
    /\ accessToken = NoToken
    /\ tokenExpiry = NullDate
    /\ sent = <<>>
    /\ startup = "listen"
    /\ retries = Retries
    /\ attempts = 0
    /\ handlers = EmptyBag
    /\ boughtNow = {}
    /\ updated = [o \in Orders |-> NoFlag]

\* jobs of an order that no dispatch has claimed and that were neither
\* cancelled nor superseded by a later schedule call
Unclaimed(orderId) ==
    {j \in JobIds : /\ jobs[j].orderId = orderId
                    /\ j \notin claimed
                    /\ j \notin cancelReq
                    /\ j \notin replaced}

\* ------------------------------------------------------------------ clock

\* time passes until the next armed timer is due
Elapse ==
    /\ \E t \in timers : t.fireAt > now
    /\ now' = Min({t.fireAt : t \in {u \in timers : u.fireAt > now}})
    /\ UNCHANGED <<variant, tokenVars, hookVars, serviceVars, schedulerVars, timers,
                   inflight, jobs, invoked, captureArgs, claimed, succeeded, failed,
                   sweptPast, cancelReq, replaced>>

\* one more dispatch in flight
Dispatch(bag, job, stage, transactionId) ==
    bag (+) SetToBag({[job |-> job, stage |-> stage,
                       orderId |-> jobs[job].orderId,
                       transactionId |-> transactionId]})

\* ===================================================== ShopifyService
\* the server of deploy.sh calls startScheduler before it listens, so the
\* request handlers run only after the first call
Listening == startCalls >= 1

\* startScheduler without its isSchedulerRunning guard
StartSchedulerUnguarded ==
    /\ variant = "service"
    /\ startCalls < MaxStartCalls
    /\ startCalls' = startCalls + 1
    /\ isSchedulerRunning' = TRUE
    /\ intervals' = intervals + 1
    /\ nextSweep' = now + SweepInterval
    /\ UNCHANGED <<variant, tokenVars, hookVars, now, scheduledJobs, sweeps, schedulerVars, timers,
                   inflight, jobs, invoked, captureArgs, claimed, succeeded, failed,
                   sweptPast, cancelReq, replaced>>

StartScheduler ==
    /\ variant = "service"
    /\ startCalls < MaxStartCalls
    /\ startCalls' = startCalls + 1
    /\ IF isSchedulerRunning
       THEN UNCHANGED <<isSchedulerRunning, intervals, nextSweep>>
       ELSE /\ isSchedulerRunning' = TRUE
            /\ intervals' = intervals + 1
            /\ nextSweep' = now + SweepInterval
    /\ UNCHANGED <<variant, tokenVars, hookVars, now, scheduledJobs, sweeps, schedulerVars, timers,
                   inflight, jobs, invoked, captureArgs, claimed, succeeded, failed,
                   sweptPast, cancelReq, replaced>>

SchedulePaymentCapture(orderId, transactionId, delay) ==
    /\ variant = "service"
    /\ Listening
    /\ Len(jobs) < MaxJobs
    /\ LET id == Len(jobs) + 1
           scheduledTime == now + delay
       IN /\ timers' = timers \cup {[id |-> id, fireAt |-> now + TimerDelay(delay)]}
          /\ scheduledJobs' = Append(scheduledJobs,
                [orderId |-> orderId, transactionId |-> transactionId,
                 scheduledTime |-> scheduledTime, jobId |-> id])
          /\ jobs' = Append(jobs,
                [orderId |-> orderId, transactionId |-> transactionId,
                 due |-> scheduledTime, at |-> now])
    /\ replaced' = replaced \cup Unclaimed(orderId)
    /\ UNCHANGED <<variant, tokenVars, now, isSchedulerRunning, intervals,
                   startCalls, nextSweep, sweeps, schedulerVars, inflight, invoked, captureArgs,
                   claimed, succeeded, failed, sweptPast, cancelReq>>

\* schedulePaymentCapture with a delay above 2147483647 ms, the largest
\* delay setTimeout accepts (and the largest integer of this model): such a
\* delay is not a number here, so the due time Date.now() + delay is held at
\* its lower bound TimeoutMax, and the timer is armed with 1 ms, which is
\* what setTimeout makes of the delay
SchedulePaymentCaptureOversized(orderId, transactionId) ==
    /\ variant = "service"
    /\ Listening
    /\ Len(jobs) < MaxJobs
    /\ LET id == Len(jobs) + 1
           scheduledTime == TimeoutMax
       IN /\ timers' = timers \cup {[id |-> id, fireAt |-> now + 1]}
          /\ scheduledJobs' = Append(scheduledJobs,
                [orderId |-> orderId, transactionId |-> transactionId,
                 scheduledTime |-> scheduledTime, jobId |-> id])
          /\ jobs' = Append(jobs,
                [orderId |-> orderId, transactionId |-> transactionId,
                 due |-> scheduledTime, at |-> now])
    /\ replaced' = replaced \cup Unclaimed(orderId)
    /\ UNCHANGED <<variant, tokenVars, now, isSchedulerRunning, intervals,
                   startCalls, nextSweep, sweeps, schedulerVars, inflight,
                   invoked, captureArgs, claimed, succeeded, failed,
                   sweptPast, cancelReq>>

\* the setTimeout callback up to `await this.capturePayment(...)`
TimerFire(t) ==
    /\ variant = "service"
    /\ t \in timers
    /\ t.fireAt <= now
    /\ timers' = timers \ {t}
    /\ inflight' = Dispatch(inflight, t.id, "capture",
                            jobs[t.id].transactionId)
    /\ invoked' = [invoked EXCEPT ![t.id] = @ + 1]
    /\ captureArgs' = captureArgs \cup
          {<<t.id, jobs[t.id].orderId, jobs[t.id].transactionId>>}
    /\ claimed' = claimed \cup {t.id}
    /\ UNCHANGED <<variant, tokenVars, hookVars, now, serviceVars, schedulerVars, jobs,
                   succeeded, failed, sweptPast, cancelReq, replaced>>

\* the jobs a sweep pass at time t dispatches:
\* job.scheduledTime <= now && job.jobId (jobId is the Timeout object, which
\* is always truthy)
Overdue(arr, t) == {i \in DOMAIN arr : arr[i].scheduledTime <= t}

\* the capturePayment calls of one sweep pass, in array order
RECURSIVE SweepCaptures(_, _, _, _)
SweepCaptures(arr, t, i, bag) ==
    IF i > Len(arr) THEN bag
    ELSE SweepCaptures(arr, t, i + 1,
            IF i \in Overdue(arr, t)
            THEN Dispatch(bag, arr[i].jobId, "capture",
                          arr[i].transactionId)
            ELSE bag)

\* a sweep pass that leaves the timers of the jobs it dispatches armed
SweepKeepsTimers ==
    /\ variant = "service"
    /\ isSchedulerRunning
    /\ sweeps < MaxSweeps
    /\ sweeps' = sweeps + 1
    /\ now' = IF now >= nextSweep THEN now ELSE nextSweep
    /\ \A i \in Overdue(scheduledJobs, now') :
          invoked[scheduledJobs[i].jobId] < MaxCalls
    /\ nextSweep' = now' + SweepInterval
    /\ LET due == {scheduledJobs[i].jobId : i \in Overdue(scheduledJobs, now')} IN
       /\ inflight' = SweepCaptures(scheduledJobs, now', 1, inflight)
       /\ invoked' = [j \in DOMAIN invoked |->
                        IF j \in due THEN invoked[j] + 1 ELSE invoked[j]]
       /\ captureArgs' = captureArgs \cup
             {<<scheduledJobs[i].jobId, scheduledJobs[i].orderId,
                scheduledJobs[i].transactionId>> :
                  i \in Overdue(scheduledJobs, now')}
       /\ claimed' = claimed \cup due
    /\ sweptPast' = sweptPast \cup {j \in JobIds : jobs[j].due <= jobs[j].at}
    /\ UNCHANGED <<variant, tokenVars, hookVars, scheduledJobs,
                   isSchedulerRunning, intervals, startCalls, schedulerVars,
                   jobs, succeeded, failed, cancelReq, replaced, timers>>

\* one tick of the setInterval callback; it runs once its minute has passed
Sweep ==
    /\ variant = "service"
    /\ isSchedulerRunning
    /\ sweeps < MaxSweeps
    /\ sweeps' = sweeps + 1
    /\ now' = IF now >= nextSweep THEN now ELSE nextSweep
    /\ \A i \in Overdue(scheduledJobs, now') :
          invoked[scheduledJobs[i].jobId] < MaxCalls
    /\ nextSweep' = now' + SweepInterval
    /\ LET due == {scheduledJobs[i].jobId : i \in Overdue(scheduledJobs, now')} IN
       /\ timers' = {t \in timers : t.id \notin due}
       /\ inflight' = SweepCaptures(scheduledJobs, now', 1, inflight)
       /\ invoked' = [j \in DOMAIN invoked |->
                        IF j \in due THEN invoked[j] + 1 ELSE invoked[j]]
       /\ captureArgs' = captureArgs \cup
             {<<scheduledJobs[i].jobId, scheduledJobs[i].orderId,
                scheduledJobs[i].transactionId>> :
                  i \in Overdue(scheduledJobs, now')}
       /\ claimed' = claimed \cup due
    /\ sweptPast' = sweptPast \cup {j \in JobIds : jobs[j].due <= jobs[j].at}
    /\ UNCHANGED <<variant, tokenVars, hookVars, scheduledJobs, isSchedulerRunning,
                   intervals, startCalls, schedulerVars, jobs, succeeded,
                   failed, cancelReq, replaced>>

\* capturePayment settles: the rest of the timer callback, or the
\* then/catch of the sweep
CaptureSettled(c, ok) ==
    /\ variant = "service"
    /\ BagIn(c, inflight)
    /\ inflight' = inflight (-) SetToBag({c})
    /\ IF ok
       THEN /\ scheduledJobs' = RemoveScheduledJobArr(scheduledJobs, c.orderId)
            /\ timers' = RemoveScheduledJobTimers(scheduledJobs, timers, c.orderId)
            /\ succeeded' = succeeded \cup {c.job}
            /\ UNCHANGED failed
       ELSE /\ failed' = failed \cup {c.job}
            /\ UNCHANGED <<scheduledJobs, timers, succeeded>>
    /\ UNCHANGED <<variant, tokenVars, hookVars, now, isSchedulerRunning, intervals,
                   startCalls, nextSweep, sweeps, schedulerVars, jobs, invoked, captureArgs,
                   claimed, sweptPast, cancelReq, replaced>>

\* =================================================== PaymentScheduler
\* Map.delete(key)
MapDelete(map, key) == [k \in DOMAIN map \ {key} |-> map[k]]

\* job.cancel() of the node-schedule job stored under key, when there is one
CancelJob(tms, map, key) ==
    IF key \in DOMAIN map THEN {t \in tms : t.id # map[key]} ELSE tms

\* schedulePayment(orderId, captureDate); every caller passes
\* new Date(Date.now() + 7 days)
SchedulePayment(orderId) ==
    /\ variant = "scheduler"
    /\ Len(jobs) < MaxJobs
    /\ LET id == Len(jobs) + 1
           jobId == JobKey(orderId)
           captureDate == now + SevenDays
       IN /\ timers' = CancelJob(timers, schedulerJobs, jobId)
                         \cup {[id |-> id, fireAt |-> captureDate]}
          /\ schedulerJobs' = [k \in DOMAIN schedulerJobs \cup {jobId} |->
                                 IF k = jobId THEN id ELSE schedulerJobs[k]]
          /\ jobs' = Append(jobs,
                [orderId |-> orderId, transactionId |-> NoTxn,
                 due |-> captureDate, at |-> now])
    /\ pendingOrders' = pendingOrders \cup {orderId}
    /\ replaced' = replaced \cup Unclaimed(orderId)
    /\ UNCHANGED <<variant, tokenVars, now, serviceVars, inflight, invoked, captureArgs,
                   claimed, succeeded, failed, sweptPast, cancelReq>>

\* the value cancelScheduledPayment(orderId) returns
CancelReturns(orderId) == JobKey(orderId) \in DOMAIN schedulerJobs

CancelScheduledPayment(orderId) ==
    /\ variant = "scheduler"
    /\ LET jobId == JobKey(orderId) IN
       IF jobId \in DOMAIN schedulerJobs
       THEN /\ timers' = CancelJob(timers, schedulerJobs, jobId)
            /\ schedulerJobs' = MapDelete(schedulerJobs, jobId)
            /\ pendingOrders' = pendingOrders \ {orderId}
       ELSE UNCHANGED <<timers, schedulerJobs, pendingOrders>>
    /\ cancelReq' = cancelReq \cup Unclaimed(orderId)
    /\ UNCHANGED <<variant, tokenVars, now, serviceVars, inflight, jobs, invoked, captureArgs,
                   claimed, succeeded, failed, sweptPast, replaced>>

\* the node-schedule callback up to `await capturePaymentForOrder(orderId)`,
\* which first awaits getAuthorizedTransaction
JobFire(t) ==
    /\ variant = "scheduler"
    /\ t \in timers
    /\ t.fireAt <= now
    /\ timers' = timers \ {t}
    /\ inflight' = Dispatch(inflight, t.id, "lookup", NoTxn)
    /\ claimed' = claimed \cup {t.id}
    /\ UNCHANGED <<variant, tokenVars, hookVars, now, serviceVars, schedulerVars, jobs,
                   invoked, captureArgs, succeeded, failed, sweptPast, cancelReq, replaced>>

\* the rest of the callback after capturePaymentForOrder has returned
JobDone(c) ==
    /\ schedulerJobs' = MapDelete(schedulerJobs, JobKey(c.orderId))
    /\ pendingOrders' = pendingOrders \ {c.orderId}

\* getAuthorizedTransaction returns: with a transaction, capturePayment is
\* called; with none (or after an error, which it swallows)
\* capturePaymentImmediately returns null and the callback goes on as after
\* a capture
LookupDone(c, txn) ==
    /\ variant = "scheduler"
    /\ BagIn(c, inflight)
    /\ c.stage = "lookup"
    /\ IF txn # NoTxn
       THEN /\ inflight' = Dispatch(inflight (-) SetToBag({c}), c.job,
                                    "capture", txn)
            /\ invoked' = [invoked EXCEPT ![c.job] = @ + 1]
            /\ captureArgs' = captureArgs \cup {<<c.job, c.orderId, txn>>}
            /\ UNCHANGED <<schedulerJobs, pendingOrders>>
       ELSE /\ inflight' = inflight (-) SetToBag({c})
            /\ JobDone(c)
            /\ UNCHANGED <<invoked, captureArgs>>
    /\ UNCHANGED <<variant, tokenVars, hookVars, now, serviceVars, timers, jobs, claimed,
                   succeeded, failed, sweptPast, cancelReq, replaced>>

\* capturePayment settles inside the node-schedule callback
JobCaptureSettled(c, ok) ==
    /\ variant = "scheduler"
    /\ BagIn(c, inflight)
    /\ c.stage = "capture"
    /\ inflight' = inflight (-) SetToBag({c})
    /\ IF ok
       THEN /\ JobDone(c)
            /\ succeeded' = succeeded \cup {c.job}
            /\ UNCHANGED failed
       ELSE /\ failed' = failed \cup {c.job}
            /\ UNCHANGED <<schedulerJobs, pendingOrders, succeeded>>
    /\ UNCHANGED <<variant, tokenVars, hookVars, now, serviceVars, timers, jobs, invoked, captureArgs,
                   claimed, sweptPast, cancelReq, replaced>>

\* ==================================================== request handlers
\* hasFlag(order, flagName) of services/shopify.js
hasFlag(order, flagName) == order.note = flagName \/ flagName \in order.tags

\* the paymentFlag that processOrder of ShopifyService settles on: the note
\* attribute (or line-item property) when there is one, else the tags with
\* buy_now looked for first
PaymentFlag(order) ==
    IF order.note # NoFlag THEN order.note
    ELSE IF "buy_now" \in order.tags THEN "buy_now"
    ELSE IF "pay_later" \in order.tags THEN "pay_later"
    ELSE NoFlag

\* the history of update webhooks, kept for the orders that have an id
Note(orderId, what) ==
    IF orderId \in Orders THEN [updated EXCEPT ![orderId] = what] ELSE updated

\* a handler stops at an await on a network call
Await(bag, kind, orderId, stage) ==
    bag (+) SetToBag({[kind |-> kind, orderId |-> orderId, stage |-> stage]})

\* processOrder without its buy_now branch: every flagged order is scheduled
ProcessOrderSchedulesAll(orderId, order, authTransaction) ==
    /\ variant = "service"
    /\ Listening
    /\ PaymentFlag(order) # NoFlag
    /\ authTransaction # NoTxn
    /\ SchedulePaymentCapture(orderId, authTransaction, PayLaterDelay)
    /\ UNCHANGED <<handlers, updated, boughtNow>>

\* ShopifyService.processOrder(orderData), from the fetched order on: it
\* returns early without a flag or without an authorization transaction
ProcessOrder(orderId, order, authTransaction) ==
    /\ variant = "service"
    /\ Listening
    /\ PaymentFlag(order) # NoFlag
    /\ authTransaction # NoTxn
    /\ IF PaymentFlag(order) = "buy_now"
       THEN /\ BagCardinality(handlers) < MaxHandlers
            /\ handlers' = Await(handlers, "processOrder", orderId, "capture")
            /\ UNCHANGED coreVars
       ELSE /\ SchedulePaymentCapture(orderId, authTransaction, PayLaterDelay)
            /\ UNCHANGED handlers
    /\ UNCHANGED <<updated, boughtNow>>

\* the buy_now capture of processOrder settles; its error is caught and
\* logged
ProcessOrderSettled(h, ok) ==
    /\ variant = "service"
    /\ BagIn(h, handlers)
    /\ handlers' = handlers (-) SetToBag({h})
    /\ UNCHANGED <<coreVars, updated, boughtNow>>

\* handleOrderCreate, with the order that getOrder returns for order.id
HandleOrderCreate(orderId, order) ==
    /\ variant = "scheduler"
    /\ IF hasFlag(order, "buy_now")
       THEN /\ BagCardinality(handlers) < MaxHandlers
            /\ handlers' = Await(handlers, "create", orderId, "lookup")
            /\ UNCHANGED <<coreVars, updated>>
       ELSE /\ hasFlag(order, "pay_later")
            /\ SchedulePayment(orderId)
            /\ updated' = Note(orderId, NoFlag)
            /\ UNCHANGED handlers
    /\ UNCHANGED boughtNow

\* a handleOrderUpdate that looks for pay_later before buy_now
HandleOrderUpdatePayLaterFirst(orderId, order) ==
    /\ variant = "scheduler"
    /\ IF hasFlag(order, "pay_later")
       THEN /\ SchedulePayment(orderId)
            /\ updated' = Note(orderId, NoFlag)
            /\ UNCHANGED handlers
       ELSE IF hasFlag(order, "buy_now")
       THEN /\ BagCardinality(handlers) < MaxHandlers
            /\ handlers' = Await(handlers, "update", orderId, "lookup")
            /\ UNCHANGED <<coreVars, updated>>
       ELSE /\ updated' = Note(orderId, "removed")
            /\ UNCHANGED <<coreVars, handlers>>
    /\ UNCHANGED boughtNow

\* handleOrderUpdate, up to its first await or to its response
HandleOrderUpdate(orderId, order) ==
    /\ variant = "scheduler"
    /\ IF hasFlag(order, "buy_now")
       THEN /\ BagCardinality(handlers) < MaxHandlers
            /\ handlers' = Await(handlers, "update", orderId, "lookup")
            /\ UNCHANGED <<coreVars, updated>>
       ELSE IF hasFlag(order, "pay_later")
       THEN /\ SchedulePayment(orderId)
            /\ updated' = Note(orderId, NoFlag)
            /\ UNCHANGED handlers
       ELSE /\ updated' = Note(orderId, "removed")
            /\ UNCHANGED <<coreVars, handlers>>
    /\ UNCHANGED boughtNow

\* capturePaymentImmediately has returned to the handler: handleOrderUpdate
\* goes on to cancelScheduledPayment, handleOrderCreate only responds
HandlerReturns(h) ==
    /\ handlers' = handlers (-) SetToBag({h})
    /\ IF h.kind = "update"
       THEN /\ CancelScheduledPayment(h.orderId)
            /\ updated' = Note(h.orderId, "buy_now")
       ELSE UNCHANGED <<coreVars, updated>>

\* capturePaymentImmediately has thrown: the handler's catch answers 500
HandlerThrows(h) ==
    /\ handlers' = handlers (-) SetToBag({h})
    /\ updated' = IF h.kind = "update" THEN Note(h.orderId, "buy_now")
                  ELSE updated
    /\ UNCHANGED coreVars

\* getAuthorizedTransaction returns inside capturePaymentImmediately
HandlerLookupDone(h, txn) ==
    /\ variant = "scheduler"
    /\ BagIn(h, handlers)
    /\ h.stage = "lookup"
    /\ IF txn # NoTxn
       THEN /\ handlers' = Await(handlers (-) SetToBag({h}), h.kind,
                                 h.orderId, "capture")
            /\ boughtNow' = IF h.kind = "update"
                            THEN boughtNow \cup Unclaimed(h.orderId)
                            ELSE boughtNow
            /\ UNCHANGED <<coreVars, updated>>
       ELSE HandlerReturns(h) /\ UNCHANGED boughtNow

\* capturePayment settles inside capturePaymentImmediately
HandlerCaptureSettled(h, ok) ==
    /\ variant = "scheduler"
    /\ BagIn(h, handlers)
    /\ h.stage = "capture"
    /\ IF ok THEN HandlerReturns(h) ELSE HandlerThrows(h)
    /\ UNCHANGED boughtNow

\* =================================================================== Next
Next ==
    \/ Elapse
    \/ StartScheduler
    \/ \E o \in Orders, d \in Delays :
          SchedulePaymentCapture(o, AuthTxn[o], d) /\ UNCHANGED hookVars
    \/ \E t \in timers : TimerFire(t)
    \/ Sweep
    \/ \E c \in BagToSet(inflight), ok \in BOOLEAN : CaptureSettled(c, ok)
    \/ \E o \in Orders : SchedulePayment(o) /\ UNCHANGED hookVars
    \/ \E o \in Orders : CancelScheduledPayment(o) /\ UNCHANGED hookVars
    \/ \E t \in timers : JobFire(t)
    \/ \E c \in BagToSet(inflight) : LookupDone(c, AuthTxn[c.orderId])
    \/ \E c \in BagToSet(inflight) : LookupDone(c, NoTxn)
    \/ \E c \in BagToSet(inflight), ok \in BOOLEAN : JobCaptureSettled(c, ok)

Spec == Init /\ [][Next]_vars

\* the timers and the sweep keep running, time passes, and every network
\* call settles (the HTTP client has a timeout)
FairSpec ==
    /\ Spec
    /\ WF_vars(Elapse)
    /\ WF_vars(Sweep)
    /\ WF_vars(\E t \in timers : TimerFire(t))
    /\ WF_vars(\E t \in timers : JobFire(t))
    /\ WF_vars(\E c \in BagToSet(inflight), ok \in BOOLEAN : CaptureSettled(c, ok))
    /\ WF_vars(\E c \in BagToSet(inflight) : LookupDone(c, AuthTxn[c.orderId]))
    /\ WF_vars(\E c \in BagToSet(inflight), ok \in BOOLEAN : JobCaptureSettled(c, ok))

\* ------------------------------------------- the scheduler behind its callers
\* the same two deployments with the jobs coming from the order handlers:
\* processOrder of ShopifyService, and the webhook controller in front of
\* PaymentScheduler
HookNext ==
    \/ Elapse
    \/ StartScheduler
    \/ \E o \in Orders, p \in Payloads :
          \E txn \in {AuthTxn[o], NoTxn} : ProcessOrder(o, p, txn)
    \/ \E h \in BagToSet(handlers), ok \in BOOLEAN : ProcessOrderSettled(h, ok)
    \/ \E t \in timers : TimerFire(t)
    \/ Sweep
    \/ \E c \in BagToSet(inflight), ok \in BOOLEAN : CaptureSettled(c, ok)
    \/ \E o \in Orders, p \in Payloads : HandleOrderCreate(o, p)
    \/ \E o \in Orders, p \in Payloads : HandleOrderUpdate(o, p)
    \/ \E p \in Payloads :
          ~hasFlag(p, "buy_now") /\ HandleOrderUpdate(NoOrderId, p)
    \/ \E h \in BagToSet(handlers) : HandlerLookupDone(h, AuthTxn[h.orderId])
    \/ \E h \in BagToSet(handlers) : HandlerLookupDone(h, NoTxn)
    \/ \E h \in BagToSet(handlers), ok \in BOOLEAN : HandlerCaptureSettled(h, ok)
    \/ \E t \in timers : JobFire(t)
    \/ \E c \in BagToSet(inflight) :
          c.orderId \in Orders /\ LookupDone(c, AuthTxn[c.orderId])
    \/ \E c \in BagToSet(inflight) : LookupDone(c, NoTxn)
    \/ \E c \in BagToSet(inflight), ok \in BOOLEAN : JobCaptureSettled(c, ok)

HookSpec == Init /\ [][HookNext]_vars


\* ---------------------------------------------- the timers of the service
\* ShopifyService with every delay its callers can pass, the oversized ones
\* included
TimerNext ==
    \/ Elapse
    \/ StartScheduler
    \/ \E o \in Orders, d \in Delays :
          SchedulePaymentCapture(o, AuthTxn[o], d) /\ UNCHANGED hookVars
    \/ \E o \in Orders :
          SchedulePaymentCaptureOversized(o, AuthTxn[o]) /\ UNCHANGED hookVars
    \/ \E t \in timers : TimerFire(t)
    \/ Sweep
    \/ \E c \in BagToSet(inflight), ok \in BOOLEAN : CaptureSettled(c, ok)

TimerInit == Init /\ variant = "service"

TimerSpec == TimerInit /\ [][TimerNext]_vars

\* --------------------------------------- PaymentScheduler and its id types
\* PaymentScheduler reached with the ids of one order as the webhook bodies
\* and the simulation endpoint deliver them
RegistryNext ==
    \/ Elapse
    \/ \E o \in JsonIds : SchedulePayment(o) /\ UNCHANGED hookVars
    \/ \E o \in JsonIds : CancelScheduledPayment(o) /\ UNCHANGED hookVars
    \/ \E t \in timers : JobFire(t)
    \/ \E c \in BagToSet(inflight) : LookupDone(c, AuthTxn[TemplateString(c.orderId)])
    \/ \E c \in BagToSet(inflight) : LookupDone(c, NoTxn)
    \/ \E c \in BagToSet(inflight), ok \in BOOLEAN : JobCaptureSettled(c, ok)

RegistryInit == Init /\ variant = "scheduler"

RegistrySpec == RegistryInit /\ [][RegistryNext]_vars

\* ----------------------------------------------- orders with both flags
\* the orders that carry buy_now and pay_later at once
BothFlags ==
    {p \in Payloads : {"buy_now", "pay_later"} \subseteq ({p.note} \cup p.tags)}

\* the order handlers of both deployments fed with such orders only; an
\* earlier pay_later webhook may have scheduled the order before
FlagNext ==
    \/ StartScheduler
    \/ \E o \in Orders, p \in BothFlags :
          \E txn \in {AuthTxn[o], NoTxn} : ProcessOrder(o, p, txn)
    \/ \E h \in BagToSet(handlers), ok \in BOOLEAN : ProcessOrderSettled(h, ok)
    \/ \E o \in Orders : SchedulePayment(o) /\ UNCHANGED hookVars
    \/ \E o \in Orders, p \in BothFlags : HandleOrderCreate(o, p)
    \/ \E o \in Orders, p \in BothFlags : HandleOrderUpdate(o, p)
    \/ \E h \in BagToSet(handlers) : HandlerLookupDone(h, AuthTxn[h.orderId])
    \/ \E h \in BagToSet(handlers) : HandlerLookupDone(h, NoTxn)
    \/ \E h \in BagToSet(handlers), ok \in BOOLEAN : HandlerCaptureSettled(h, ok)

FlagSpec == Init /\ [][FlagNext]_vars

\* ========================================================== credential
\* the condition under which ensureValidToken refreshes
NeedsRefresh ==
    \/ accessToken = NoToken
    \/ tokenExpiry = NullDate
    \/ tokenExpiry < now - RefreshMargin

\* the tokenExpiry that refreshAccessToken stores
NewExpiry(expiresIn) == now + expiresIn * 1000

\* capturePayment up to its POST: ensureValidToken, which refreshes when
\* NeedsRefresh says so (a refresh that fails throws, and nothing is sent),
\* then the request with the token the service now holds
CapturePayment(expiresIn) ==
    /\ Len(sent) < MaxRequests
    /\ IF NeedsRefresh
       THEN /\ accessToken' = "token"
            /\ tokenExpiry' = NewExpiry(expiresIn)
       ELSE UNCHANGED <<accessToken, tokenExpiry>>
    /\ sent' = Append(sent, [at |-> now, expiry |-> tokenExpiry'])
    /\ UNCHANGED <<variant, now, startupVars, serviceVars, schedulerVars, timers,
                   inflight, jobs, invoked, captureArgs, claimed, succeeded,
                   failed, sweptPast, cancelReq, replaced, hookVars>>

\* time passes between two capture calls
Wait(d) ==
    /\ now + d <= MaxMinutes * 60 * 1000
    /\ now' = now + d
    /\ UNCHANGED <<variant, tokenVars, serviceVars, schedulerVars, timers,
                   inflight, jobs, invoked, captureArgs, claimed, succeeded,
                   failed, sweptPast, cancelReq, replaced, hookVars>>

TokenNext ==
    \/ \E d \in Waits : Wait(d)
    \/ \E e \in ExpiresIn : CapturePayment(e)

TokenSpec == Init /\ [][TokenNext]_vars

\* ============================================================== startup
\* the app.listen callback up to its first refreshAccessToken call:
\* scheduler.start() inside its own try/catch, then `let retries = 3` and
\* the first pass of the loop
StartupBegin ==
    /\ startup = "listen"
    /\ startup' = "requesting"
    /\ retries' = Retries
    /\ attempts' = attempts + 1
    /\ UNCHANGED <<accessToken, tokenExpiry, sent, variant, now, serviceVars,
                   schedulerVars, timers, inflight, jobs, invoked,
                   captureArgs, claimed, succeeded, failed, sweptPast,
                   cancelReq, replaced, hookVars>>

\* refreshAccessToken returns: the token is stored and the loop breaks
RefreshSucceeds(expiresIn) ==
    /\ startup = "requesting"
    /\ accessToken' = "token"
    /\ tokenExpiry' = NewExpiry(expiresIn)
    /\ startup' = "initialized"
    /\ UNCHANGED <<retries, attempts, sent, variant, now, serviceVars,
                   schedulerVars, timers, inflight, jobs, invoked,
                   captureArgs, claimed, succeeded, failed, sweptPast,
                   cancelReq, replaced, hookVars>>

\* a catch block that forgets retries--
RefreshFailsKeepsRetries ==
    /\ startup = "requesting"
    /\ startup' = "waiting"
    /\ UNCHANGED <<retries, attempts, accessToken, tokenExpiry, sent, variant,
                   now, serviceVars, schedulerVars, timers, inflight, jobs,
                   invoked, captureArgs, claimed, succeeded, failed,
                   sweptPast, cancelReq, replaced, hookVars>>

\* refreshAccessToken throws: the catch block counts down and either gives
\* up, which ends the loop, or starts the 5 second wait
RefreshFails ==
    /\ startup = "requesting"
    /\ retries' = retries - 1
    /\ startup' = IF retries' = 0 THEN "initialized" ELSE "waiting"
    /\ UNCHANGED <<attempts, accessToken, tokenExpiry, sent, variant, now,
                   serviceVars, schedulerVars, timers, inflight, jobs,
                   invoked, captureArgs, claimed, succeeded, failed,
                   sweptPast, cancelReq, replaced, hookVars>>

\* the 5 second timer resolves and the loop, with retries > 0, calls
\* refreshAccessToken again
Retry ==
    /\ startup = "waiting"
    /\ retries > 0
    /\ now' = now + RetryDelay
    /\ startup' = "requesting"
    /\ attempts' = attempts + 1
    /\ UNCHANGED <<retries, accessToken, tokenExpiry, sent, variant,
                   serviceVars, schedulerVars, timers, inflight, jobs,
                   invoked, captureArgs, claimed, succeeded, failed,
                   sweptPast, cancelReq, replaced, hookVars>>

\* the callback runs once the server listens, so requests are served while
\* the loop waits for its network calls
StartupNext ==
    \/ StartupBegin
    \/ \E e \in ExpiresIn : RefreshSucceeds(e)
    \/ RefreshFails
    \/ Retry
    \/ \E o \in Orders : SchedulePayment(o) /\ UNCHANGED hookVars
    \/ \E o \in Orders : CancelScheduledPayment(o) /\ UNCHANGED hookVars

StartupInit == Init /\ variant = "scheduler"

\* the callback is run, its timer fires, and each token request settles one
\* way or the other
StartupSpec ==
    /\ StartupInit
    /\ [][StartupNext]_vars
    /\ WF_vars(StartupBegin)
    /\ WF_vars(Retry)
    /\ WF_vars(RefreshFails \/ \E e \in ExpiresIn : RefreshSucceeds(e))

\* ============================================================= properties
\* the job is held in the registry of the running deployment
InRegistry(j) ==
    \/ \E i \in DOMAIN scheduledJobs : scheduledJobs[i].jobId = j
    \/ \E k \in DOMAIN schedulerJobs : schedulerJobs[k] = j

\* the job's one-shot timer is armed
Armed(j) == \E t \in timers : t.id = j

\* number of dispatches of the job whose callback has not finished
InFlight(j) ==
    LET calls == {c \in BagToSet(inflight) : c.job = j} IN
    IF calls = {} THEN 0
    ELSE BagCardinality([c \in calls |-> CopiesIn(c, inflight)])

\* Pending or Executing, as the registry shows it: held in the registry and
\* either not dispatched yet or with a dispatch still running
Live(j) == InRegistry(j) /\ (j \notin claimed \/ InFlight(j) > 0)

\* C1: in every reachable state the registry holds at most one live
\* (Pending or Executing) job per orderId.
C1_OneLiveJobPerOrder ==
    \A o \in Orders :
        Cardinality({j \in JobIds : jobs[j].orderId = o /\ Live(j)}) <= 1

\* C2: whatever the interleaving of a job's timer and the sweep passes,
\* capture is invoked at most once for the job and never more than one
\* capture attempt for it is in flight.
C2_SingleCapturePerJob ==
    \A j \in JobIds : invoked[j] <= 1 /\ InFlight(j) <= 1

\* C3: once schedule is called again for an order whose job is still
\* Pending, capture is never invoked for the earlier job.
C3_ReplacedNeverCaptured ==
    [][\A j \in JobIds : j \in replaced => invoked'[j] = invoked[j]]_vars

\* C4: once cancel(orderId) is called while the order's job is still
\* Pending, capture is never invoked for that job.
C4_CancelledNeverCaptured ==
    [][\A j \in JobIds : j \in cancelReq => invoked'[j] = invoked[j]]_vars

\* a Pending job as schedule installs it: unclaimed, in the registry, timer
\* armed
Intact(j) == j \notin claimed /\ InRegistry(j) /\ Armed(j)

\* a dispatch of an earlier job of the same order leaves the in-flight bag
EarlierAttemptEnds(j) ==
    \E c \in BagToSet(inflight) :
        /\ c.job < j
        /\ c.orderId = jobs[j].orderId
        /\ CopiesIn(c, inflight') < CopiesIn(c, inflight)

\* C5: a job installed by a re-schedule is left intact (in the registry,
\* Pending, timer armed) by every step in which an earlier attempt for the
\* same order finishes.
C5_RescheduledJobIntact ==
    [][\A j \in JobIds :
         (Intact(j) /\ EarlierAttemptEnds(j)) => Intact(j)']_vars

\* C6: a job whose capture call failed is not in the registry, and capture
\* is never invoked for it again.
C6_FailedRemovedNoRetry ==
    /\ [](\A j \in failed : ~InRegistry(j))
    /\ [][\A j \in failed : invoked'[j] = invoked[j]]_vars

\* C7: every job that is scheduled and is neither cancelled nor replaced
\* eventually has a capture attempt started for it.
C7_EventuallyDispatched ==
    \A j \in 1..MaxJobs :
        (j \in JobIds) ~> (j \in claimed \/ j \in cancelReq \/ j \in replaced)

\* C8: a job scheduled with a due time already in the past, and neither
\* cancelled nor replaced, has been dispatched once the next sweep pass has
\* run.
C8_OverdueDispatchedByNextSweep ==
    \A j \in sweptPast \ (cancelReq \cup replaced) : j \in claimed

\* C9: for a job that was not cancelled and whose capture call succeeded,
\* capture was invoked exactly once, with the orderId and transactionId
\* given at schedule time, and the job is no longer in the registry.
C9_SucceededOnceAndRemoved ==
    \A j \in succeeded \ cancelReq :
        /\ invoked[j] = 1
        /\ \A a \in captureArgs :
              a[1] = j =>
                /\ a[2] = jobs[j].orderId
                /\ jobs[j].transactionId # NoTxn => a[3] = jobs[j].transactionId
        /\ ~InRegistry(j)

\* C10: no job whose capture attempt has finished, with success or with
\* failure, appears in the output of list().
C10_ListOnlyUnfinished ==
    \A i \in DOMAIN getScheduledJobs :
        /\ getScheduledJobs[i].orderId = jobs[scheduledJobs[i].jobId].orderId
        /\ scheduledJobs[i].jobId \notin succeeded \cup failed

\* Pending (not dispatched, timer armed) or Executing (a dispatch running)
PendingOrExecuting(j) == (j \notin claimed /\ Armed(j)) \/ InFlight(j) > 0

\* C11: cancel(orderId) returns true exactly when the order has a live
\* (Pending or Executing) job at the time of the call, and then that job is
\* out of the registry with no armed timer; with no live job it returns
\* false and leaves the registry and the timers as they were.
C11_CancelReturnsLive ==
    [][\A o \in Orders :
         CancelScheduledPayment(o) =>
           LET live == {j \in JobIds :
                          jobs[j].orderId = o /\ PendingOrExecuting(j)}
           IN IF live # {}
              THEN /\ CancelReturns(o)
                   /\ \A j \in live : ~InRegistry(j)' /\ ~Armed(j)'
              ELSE /\ ~CancelReturns(o)
                   /\ UNCHANGED <<schedulerJobs, pendingOrders, timers>>]_vars

\* C12: a schedule call with a missing orderId or transactionId is rejected:
\* it creates no job and leaves the registry and the armed timers as they
\* were.
C12_MissingIdRejected ==
    [][(\/ SchedulePayment(NoOrderId)
        \/ \E t \in Txns \cup {NoTxn}, d \in Delays :
              SchedulePaymentCapture(NoOrderId, t, d)
        \/ \E o \in Orders, d \in Delays :
              SchedulePaymentCapture(o, NoTxn, d))
       => UNCHANGED <<jobs, scheduledJobs, schedulerJobs, pendingOrders,
                      timers>>]_vars

\* C13: once an update webhook that carries buy_now, or carries no payment
\* flag any more, has been handled for an order, and until the order is
\* scheduled again, the order has no live job and no armed timer.
C13_UpdateCancelsJob ==
    \A o \in Orders :
        updated[o] \in {"buy_now", "removed"} =>
            \A j \in JobIds :
                jobs[j].orderId = o => ~Live(j) /\ ~Armed(j)

\* C14: every job was scheduled with the authorization transaction that the
\* classification of its order had found: no job exists for an order for
\* which none was found.
C14_AuthorizedBeforeScheduled ==
    \A j \in JobIds : jobs[j].transactionId \in Txns

\* the step in which a capture call of job j fails leaves the scheduler as
\* it was: the other timers, the sweep loop and the other jobs' entries
FailureAbsorbed(j) ==
    (j \in failed' /\ j \notin failed) =>
        /\ UNCHANGED <<timers, isSchedulerRunning, intervals, nextSweep>>
        /\ \A k \in JobIds \ {j} : InRegistry(k) => InRegistry(k)'

\* Failed is where the job ends: it does not complete afterwards
FailureTerminal(j) ==
    (j \in failed /\ j \notin succeeded) => j \notin succeeded'

\* C15: a capture failure at dispatch time is absorbed by the dispatch path
\* (the timers and the sweep loop of the scheduler and the other jobs are
\* untouched by it) and is the terminal state of the job.
C15_FailureAbsorbedAndTerminal ==
    [][\A j \in JobIds : FailureAbsorbed(j) /\ FailureTerminal(j)]_vars

\* C16: every capture request carries a token whose expiry time has not
\* passed when the request is sent.
C16_TokenValidWhenSent ==
    \A i \in DOMAIN sent : sent[i].expiry >= sent[i].at

\* C17: for every job that list() returns, the time remaining it reports is
\* max(dueAt - now, 0), and so is never negative.
C17_TimeLeftClamped ==
    \A i \in DOMAIN getScheduledJobs :
        LET left == jobs[scheduledJobs[i].jobId].due - now IN
        /\ getScheduledJobs[i].timeLeftMs = (IF left > 0 THEN left ELSE 0)
        /\ getScheduledJobs[i].minutes >= 0
        /\ getScheduledJobs[i].seconds >= 0

\* C18: every job scheduled for an order classified pay_later is due 7 days
\* after the moment of classification.
C18_DueSevenDaysLater ==
    \A j \in JobIds : jobs[j].due = jobs[j].at + SevenDays

\* the handler h finishes in this step
HandlerEnds(h) ==
    /\ CopiesIn(h, handlers') < CopiesIn(h, handlers)
    /\ BagCardinality(handlers') < BagCardinality(handlers)

\* a capture call is made for the order in this step, inside a handler that
\* goes on waiting for it
CaptureStarted(kind, orderId) ==
    LET h == [kind |-> kind, orderId |-> orderId, stage |-> "capture"]
    IN CopiesIn(h, handlers') > CopiesIn(h, handlers)

\* C19 (as stated): handling a webhook for an order that carries the
\* buy_now flag creates no job, and the handling does not finish before
\* capture has been invoked.
C19_BuyNowCapturedNotScheduled ==
    [][/\ \A o \in Orders, p \in Payloads :
             (/\ hasFlag(p, "buy_now")
              /\ \/ ProcessOrder(o, p, AuthTxn[o])
                 \/ HandleOrderCreate(o, p)
                 \/ HandleOrderUpdate(o, p))
             => jobs' = jobs
       /\ \A h \in BagToSet(handlers) :
             HandlerEnds(h) => h.stage = "capture"]_vars

\* C19 (amended): handling a webhook for an order that the handler
\* classifies as buy_now creates no job, and it invokes capture, during the
\* handling, whenever an authorization transaction is found for the order.
C19_ClassifiedBuyNowCaptured ==
    [][/\ \A o \in Orders, p \in Payloads :
             /\ (PaymentFlag(p) = "buy_now" /\ ProcessOrder(o, p, AuthTxn[o]))
                => jobs' = jobs /\ CaptureStarted("processOrder", o)
             /\ (/\ hasFlag(p, "buy_now")
                 /\ HandleOrderCreate(o, p) \/ HandleOrderUpdate(o, p))
                => jobs' = jobs
       /\ \A h \in BagToSet(handlers) :
             /\ HandlerLookupDone(h, AuthTxn[h.orderId])
                => jobs' = jobs /\ CaptureStarted(h.kind, h.orderId)
             /\ HandlerEnds(h) => jobs' = jobs]_vars

\* a buy_now handler is waiting for the capture call it has made
C19_Witness ==
    \E h \in BagToSet(handlers) : h.stage = "capture"

\* C20: a sweep pass that dispatches an overdue job clears the job's timer
\* first, so a timer callback only ever runs for a job that nothing has
\* dispatched yet, and it adds no capture call to the one of the sweep.
C20_SweptTimerNeverFires ==
    [][\A t \in timers : TimerFire(t) => t.id \notin claimed]_vars

\* a sweep pass, one minute after the start, has dispatched an overdue job
\* whose timer had not fired: its one capture call is in flight
C20_Witness ==
    \E j \in sweptPast :
        /\ jobs[j].at = 0
        /\ now = SweepInterval
        /\ invoked[j] = 1
        /\ InFlight(j) = 1
        /\ j \notin succeeded \cup failed
        /\ ~Armed(j)

\* C21: capture is never invoked for a job before its due time.
C21_NeverBeforeDue ==
    [][\A j \in JobIds : invoked'[j] > invoked[j] => now' >= jobs[j].due]_vars

\* the registry holds the job under the key of its order
RegisteredUnderOrder(j) ==
    \/ \E i \in DOMAIN scheduledJobs :
          scheduledJobs[i].jobId = j /\ scheduledJobs[i].orderId = jobs[j].orderId
    \/ /\ JobKey(jobs[j].orderId) \in DOMAIN schedulerJobs
       /\ schedulerJobs[JobKey(jobs[j].orderId)] = j

\* C22: every job whose timer is armed is held in the registry under its
\* orderId.
C22_ArmedIsRegistered ==
    \A j \in JobIds : Armed(j) => RegisteredUnderOrder(j)

\* C23: once the update-webhook handler has started a buy_now capture for
\* an order, capture is never invoked for a job of that order that was
\* scheduled before and was still Pending.
C23_BoughtNowNeverCaptured ==
    [][\A j \in JobIds : j \in boughtNow => invoked'[j] = invoked[j]]_vars

\* C24: after every completed PaymentScheduler operation an orderId is in
\* pendingOrders exactly when the key payment_capture_<orderId> is in
\* scheduledJobs.
C24_PendingIffScheduled ==
    /\ \A o \in pendingOrders : JobKey(o) \in DOMAIN schedulerJobs
    /\ \A o \in JsonIds \cup OrderIds :
          JobKey(o) \in DOMAIN schedulerJobs =>
             \E p \in pendingOrders : JobKey(p) = JobKey(o)

\* what the scheduler holds of job j: its registry entries, its due time and
\* its timer
Held(j) ==
    <<{scheduledJobs[i] : i \in {n \in DOMAIN scheduledJobs :
                                    scheduledJobs[n].jobId = j}},
      {k \in DOMAIN schedulerJobs : schedulerJobs[k] = j},
      jobs[j].due,
      {t \in timers : t.id = j}>>

\* the jobs of every other order are as they were
OthersUntouched(orderId) ==
    \A j \in JobIds :
        TemplateString(jobs[j].orderId) # TemplateString(orderId)
            => Held(j)' = Held(j)

\* a scheduler step taken for orderId: schedule, cancel, timer fire, capture
\* completion
StepFor(orderId) ==
    \/ \E d \in Delays : SchedulePaymentCapture(orderId, AuthTxn[orderId], d)
    \/ SchedulePayment(orderId)
    \/ CancelScheduledPayment(orderId)
    \/ \E t \in timers :
          jobs[t.id].orderId = orderId /\ (TimerFire(t) \/ JobFire(t))
    \/ \E c \in BagToSet(inflight), ok \in BOOLEAN :
          /\ c.orderId = orderId
          /\ \/ CaptureSettled(c, ok)
             \/ JobCaptureSettled(c, ok)
             \/ LookupDone(c, IF ok THEN AuthTxn[orderId] ELSE NoTxn)

\* the jobs a sweep pass dispatches
SweepDispatches(t) ==
    {scheduledJobs[i].jobId : i \in Overdue(scheduledJobs, t)}

\* C25: every scheduler step taken for one orderId leaves the registry
\* entries, due times and timers of the jobs of every other orderId
\* unchanged; a sweep pass touches only the jobs it dispatches.
C25_OtherOrdersUntouched ==
    [][/\ \A o \in Orders : StepFor(o) => OthersUntouched(o)
       /\ Sweep => \A j \in JobIds :
                      j \notin SweepDispatches(now') => Held(j)' = Held(j)]_vars

\* two orders have a job each; the capture of one has completed and removed
\* its entry while the other is still registered and armed
C25_Witness ==
    \E j, k \in JobIds :
        /\ jobs[j].orderId # jobs[k].orderId
        /\ j \in succeeded /\ ~InRegistry(j)
        /\ InRegistry(k) /\ Armed(k)

\* C26: startScheduler is idempotent: after any number of calls exactly one
\* periodic sweep loop is installed, and one sweep tick starts one capture
\* for each overdue job.
C26_OneSweepLoop ==
    /\ [](startCalls >= 1 => intervals = 1 /\ isSchedulerRunning)
    /\ [][Sweep => \A j \in JobIds :
                     invoked'[j] = invoked[j] +
                        (IF j \in SweepDispatches(now') THEN intervals ELSE 0)]_vars

\* startScheduler has been called twice and a sweep tick has since
\* dispatched an overdue job
C26_Witness ==
    /\ startCalls = MaxStartCalls
    /\ intervals = 1
    /\ sweeps >= 1
    /\ \E j \in JobIds : j \in claimed /\ ~Armed(j) /\ InRegistry(j)
                          /\ invoked[j] >= 1 /\ now >= nextSweep - SweepInterval
                          /\ jobs[j].due <= nextSweep - SweepInterval

\* C27: the startup token loop terminates: it calls refreshAccessToken at
\* most 3 times, stops at the first success, and after the third failure in
\* a row gives up and lets startup go on.
C27_StartupLoopTerminates ==
    /\ [](attempts <= Retries)
    /\ [](startup = "initialized" =>
            accessToken # NoToken \/ (attempts = Retries /\ retries = 0))
    /\ [][/\ (\E e \in ExpiresIn : RefreshSucceeds(e)) =>
                startup' = "initialized"
          /\ startup = "initialized" =>
                startup' = "initialized" /\ attempts' = attempts]_vars
    /\ <>(startup = "initialized")

\* three attempts have failed and startup went on without a token
C27_Witness ==
    /\ startup = "initialized"
    /\ attempts = Retries
    /\ retries = 0
    /\ accessToken = NoToken
    /\ now = (Retries - 1) * RetryDelay

\* the handler starts waiting for the authorization lookup of its immediate
\* capture in this step
LookupStarted(kind, orderId) ==
    LET h == [kind |-> kind, orderId |-> orderId, stage |-> "lookup"]
    IN CopiesIn(h, handlers') > CopiesIn(h, handlers)

\* C28 (as stated): an order with both buy_now and pay_later is classified
\* buy_now, is captured immediately and gets no deferred-capture job, in
\* processOrder and in the update webhook handler alike.
C28_BothFlagsCapturedNotScheduled ==
    [][/\ \A o \in Orders, p \in BothFlags :
             (\/ ProcessOrder(o, p, AuthTxn[o])
              \/ HandleOrderCreate(o, p)
              \/ HandleOrderUpdate(o, p))
             => jobs' = jobs
       /\ \A h \in BagToSet(handlers) :
             HandlerEnds(h) => h.stage = "capture"]_vars

\* C28 (amended): the webhook controller takes an order with both flags
\* down its buy_now path on create and on update alike: no job is created
\* for it, and capture is invoked, during the handling, whenever an
\* authorization transaction is found.
C28_BothFlagsTakeBuyNowPath ==
    [][/\ \A o \in Orders, p \in BothFlags :
             /\ HandleOrderCreate(o, p)
                => jobs' = jobs /\ LookupStarted("create", o)
             /\ HandleOrderUpdate(o, p)
                => jobs' = jobs /\ LookupStarted("update", o)
       /\ \A h \in BagToSet(handlers) :
             variant = "scheduler" =>
               /\ HandlerLookupDone(h, AuthTxn[h.orderId])
                  => jobs' = jobs /\ CaptureStarted(h.kind, h.orderId)
               /\ HandlerEnds(h) => jobs' = jobs]_vars

\* the update handler of an order with both flags waits for the capture it
\* has invoked, and the order has no job
C28_Witness ==
    \E h \in BagToSet(handlers) :
        /\ h.kind = "update"
        /\ h.stage = "capture"
        /\ \A j \in JobIds : jobs[j].orderId # h.orderId

====
